---- MODULE Spec2Model ----
(***************************************************************************)
(* The MCP test harness of mcp-whisker-go: the scripts that spawn the      *)
(* server, send it line-delimited JSON-RPC requests on its standard input  *)
(* and judge what comes back.  One behaviour of the model is one run of    *)
(* one script (chosen in Init) against an arbitrary server.                *)
(***************************************************************************)
EXTENDS Integers, Sequences, FiniteSets, TLC

VARIABLES
    script,      \* which script this run executes
    command,     \* test_server_path: the configured command and its server
    pc,          \* position of the script's main thread
    procs,       \* every child process spawned so far, in spawn order
    sent,        \* every request written so far: [p |-> process, id |-> request id]
    resp,        \* the value the current call returned (NoResp: None)
    idx,         \* index of the current step / loop iteration
    started,     \* steps started so far, in order
    verdicts,    \* what the script reported per finished step
    passed,      \* MCPTestSuite.passed
    failed,      \* MCPTestSuite.failed
    request_id,  \* MCPClient.request_id
    thread,      \* worker thread of the timeout-supervised send_request
    captured,    \* the worker's nonlocal stdout
    expired,     \* thread.join(timeout) of this call returned on its timeout
    content,     \* how the test method got through the response body
    iter,        \* benchmark_tool: the loop variable i
    times,       \* benchmark_tool: durations of the successful attempts
    success_count, \* benchmark_tool: number of successful attempts
    results      \* MCPBenchmark.results, per benchmarked tool

benchVars == <<iter, times, success_count, results>>

vars == <<script, command, pc, procs, sent, resp, idx, started, verdicts, passed, failed,
          request_id, thread, captured, expired, content, benchVars>>

(***************************************************************************)
(* Responses.  A line of the server's standard output is abstracted to     *)
(* what the scripts look at: whether it parses, its "jsonrpc" and "id"     *)
(* members, whether "result" and "error" are present, and whether the      *)
(* member the script processes has a shape that makes the processing       *)
(* raise (empty content list, non-object result or error).                 *)
(***************************************************************************)
NoId == -1

NoResp == [kind |-> "none", jsonrpc |-> FALSE, id |-> NoId,
           hasResult |-> FALSE, hasError |-> FALSE, malformed |-> FALSE]

Garbage == [NoResp EXCEPT !.kind = "garbage"]

\* Members a script never reads are fixed: only the simulation reads
\* "jsonrpc" and tests the presence of "id"; it never opens the result.
\* The benchmark reads nothing but the presence of "result".
JsonrpcVals == IF script = "sim" THEN BOOLEAN ELSE {TRUE}

IdVals(req) ==
    IF script = "sim" THEN {req, req + 1, NoId}
    ELSE IF script = "bench" THEN {req}
    ELSE {req, req + 1}

MalformedVals ==
    IF script \in {"sim", "bench", "idem"} THEN {FALSE} ELSE BOOLEAN

HasErrorVals == IF script = "bench" THEN {FALSE} ELSE BOOLEAN

JsonResponses(req) ==
    { r \in [kind : {"json"}, jsonrpc : JsonrpcVals, id : IdVals(req),
             hasResult : BOOLEAN, hasError : HasErrorVals,
             malformed : MalformedVals] :
        r.malformed => (r.hasResult \/ r.hasError) }

Responses(req) == JsonResponses(req) \cup {Garbage}

(***************************************************************************)
(* Child processes.  st: "run" (running, no signal pending), "terming"     *)
(* (SIGTERM delivered, the process is shutting down), "stubborn" (SIGTERM  *)
(* delivered and ignored), "dead".  held: the script still holds the Popen *)
(* object and its pipes.  req: ids of the requests written to stdin that   *)
(* the server has not answered.  out: lines written to stdout and not yet  *)
(* read by the script.  err: chunks written to the stderr pipe and not yet *)
(* read; a chunk beyond PipeCapacity is a write the server is blocked in.  *)
(* communicate() reads stderr as it comes, so err stays 0 under it.        *)
(***************************************************************************)
PipeCapacity == 1

NewProc == [st |-> "run", held |-> TRUE, req |-> <<>>, out |-> <<>>, err |-> 0]

\* the server is blocked in a write to its full stderr pipe
ErrBlocked(p) == procs[p].err > PipeCapacity

Alive(p) == procs[p].st # "dead"

LiveProcs == { p \in 1..Len(procs) : Alive(p) }

SpawnResend(id) ==
    /\ procs' = Append(procs, [NewProc EXCEPT !.req = <<id>>])
    /\ sent' = sent \o << [p |-> Len(procs) + 1, id |-> id],
                          [p |-> Len(procs) + 1, id |-> id] >>

SpawnReuse(id) ==
    IF procs = <<>>
    THEN /\ procs' = Append(procs, [NewProc EXCEPT !.req = <<id>>])
         /\ sent' = Append(sent, [p |-> Len(procs) + 1, id |-> id])
    ELSE /\ procs' = [procs EXCEPT ![Len(procs)] = [NewProc EXCEPT !.req = <<id>>]]
         /\ sent' = Append(sent, [p |-> Len(procs), id |-> id])

\* subprocess.Popen(...) followed by writing one request line
Spawn(id) ==
    /\ procs' = Append(procs, [NewProc EXCEPT !.req = <<id>>])
    /\ sent' = Append(sent, [p |-> Len(procs) + 1, id |-> id])

\* the Popen object goes out of scope: its pipes are closed with it
Drop(ps, p) ==
    [ps EXCEPT ![p].held = FALSE, ![p].req = <<>>, ![p].out = <<>>, ![p].err = 0]

\* what communicate() returns as stdout once the process has exited
Stdout(p) == IF procs[p].out = <<>> THEN NoResp ELSE procs[p].out[1]

\* json.loads(stdout.strip()) guarded by "if stdout.strip()"; None otherwise
ParseOrNone(r) == IF r.kind = "json" THEN r ELSE NoResp

Cur == Len(procs)

Last(q) == q[Len(q)]

(***************************************************************************)
(* The server (environment).  It may answer a request it has read with any *)
(* line, exit at any time, and finish shutting down after a SIGTERM it     *)
(* honours.                                                                *)
(***************************************************************************)
ServerWrite ==
    \E p \in 1..Len(procs) :
        /\ procs[p].st \in {"run", "stubborn"}
        /\ procs[p].held
        /\ ~ErrBlocked(p)
        /\ procs[p].req # <<>>
        /\ \E r \in Responses(Head(procs[p].req)) :
               procs' = [procs EXCEPT ![p].out = Append(@, r),
                                      ![p].req = Tail(@)]
        /\ UNCHANGED <<script, command, expired, benchVars, content, pc, sent, resp, idx, started, verdicts, passed,
                       failed, request_id, thread, captured>>

ServerExit ==
    \E p \in 1..Len(procs) :
        /\ procs[p].st \in {"run", "stubborn"}
        /\ procs' = [procs EXCEPT ![p].st = "dead"]
        /\ UNCHANGED <<script, command, expired, benchVars, content, pc, sent, resp, idx, started, verdicts, passed,
                       failed, request_id, thread, captured>>

ServerTermExit ==
    \E p \in 1..Len(procs) :
        /\ procs[p].st = "terming"
        /\ procs' = [procs EXCEPT ![p].st = "dead"]
        /\ UNCHANGED <<script, command, expired, benchVars, content, pc, sent, resp, idx, started, verdicts, passed,
                       failed, request_id, thread, captured>>

(***************************************************************************)
(* run_all_tests.py: MCPTestSuite                                          *)
(***************************************************************************)
NumTests == 7

\* the branch a test_* method takes on the value run_mcp_request returned:
\* "pass" (passed += 1), "fail" (else branch, failed += 1), "error" (the
\* method raised; run_all_tests counts it).
TestVerdict(t, r) ==
    IF r.kind = "json" /\ r.hasResult
    THEN IF r.malformed THEN "error" ELSE "pass"
    ELSE IF r.kind = "json" /\ r.hasError /\ r.malformed /\ t >= 4
         THEN "error" ELSE "fail"

\* the test methods whose pass branch parses the content text inside
\* "try: json.loads(content) ... except:": tests 3, 5, 6 and 7
TryTests == {3, 5, 6, 7}

\* what the secondary parse can give: the payload the branch expects, a JSON
\* value of another shape, or text that is not JSON
ContentOutcomes == {"structured", "unexpected", "unparsable"}

SecondaryVerdictFailOnRaw(o) == IF o = "unparsable" THEN "fail" ELSE "pass"

\* the counter the pass branch increments after the secondary parse: every
\* branch of the try and the bare except end in self.passed += 1
SecondaryVerdict(o) == "pass"

\* the value the pass branch of test t reports: the parsed payload, or the
\* raw text when json.loads or the use of the payload raised; test 5 treats
\* every payload that is not a non-empty list as an empty result
ContentUsed(t, o) ==
    IF o = "structured" \/ (o = "unexpected" /\ t = 5) THEN "structured"
    ELSE "raw"

\* run_all_tests up to the loop: the binary must exist
SuStart ==
    /\ script = "suite" /\ pc = "su_start"
    /\ \/ pc' = "su_loop"
       \/ pc' = "done"
    /\ UNCHANGED <<script, command, expired, benchVars, content, procs, sent, resp, idx, started, verdicts, passed,
                   failed, request_id, thread, captured>>

\* for test_name, test_func in tests: test_func() -> run_mcp_request up to
\* communicate(); a Popen failure is caught there and None returned
SuCall ==
    /\ script = "suite" /\ pc = "su_loop" /\ idx <= NumTests
    /\ started' = Append(started, idx)
    /\ \/ Spawn(1) /\ pc' = "su_communicate" /\ resp' = resp
       \/ pc' = "su_eval" /\ resp' = NoResp /\ UNCHANGED <<procs, sent>>
    /\ content' = "none"
    /\ UNCHANGED <<script, command, expired, benchVars, idx, verdicts, passed, failed, request_id,
                   thread, captured>>

\* communicate() returns: the child has exited
SuCommunicateDone ==
    /\ script = "suite" /\ pc = "su_communicate" /\ ~Alive(Cur)
    /\ resp' = ParseOrNone(Stdout(Cur))
    /\ procs' = Drop(procs, Cur)
    /\ pc' = "su_eval"
    /\ UNCHANGED <<script, command, expired, benchVars, content, sent, idx, started, verdicts, passed, failed,
                   request_id, thread, captured>>

\* communicate(timeout=...) raises TimeoutExpired: "except Exception" returns
\* None; nothing stops the child
SuTimeoutExpired ==
    /\ script = "suite" /\ pc = "su_communicate" /\ Alive(Cur)
    /\ resp' = NoResp
    /\ procs' = Drop(procs, Cur)
    /\ pc' = "su_eval"
    /\ UNCHANGED <<script, command, expired, benchVars, content, sent, idx, started, verdicts, passed, failed,
                   request_id, thread, captured>>

\* the for loop after a step that did not raise KeyboardInterrupt: every
\* verdict, "except Exception" included, goes on to the next test
SuAfterBreakOnFail(v) == IF v = "pass" THEN "su_loop" ELSE "su_summary"

SuAfter(v) == "su_loop"

SuNextIdxRetryFailed(i, v) == IF v = "pass" THEN i + 1 ELSE i

SuNextIdx(i, v) == i + 1

\* what the loop counts for a step whose test method took branch v: the
\* method's own increment, or failed += 1 under "except Exception"
SuCountsErrorAsPass(v) == IF v = "fail" THEN "fail" ELSE "pass"

SuCounts(v) == IF v = "pass" THEN "pass" ELSE "fail"

CountResetsOther(n, hit) == IF hit THEN n + 1 ELSE 0

\* self.passed += 1 / self.failed += 1 in the branch taken; the counter of
\* the other branch is not touched
Count(n, hit) == IF hit THEN n + 1 ELSE n

\* what the result of initialize can hold under "serverInfo": a name and a
\* version, or nothing (server_info.get(...) gives None)
InfoShapes == {"named", "unnamed"}

\* what the result of tools/list can hold under "tools": tools with distinct
\* names, no tool, or tools of which two have the same name
ToolsShapes == {"distinct", "empty", "duplicates"}

\* how the test method can get through the response: it raises, it goes
\* through the secondary parse, it prints what the result of the handshake
\* or of tools/list holds, or it needs none of these
SuHandling(t, r) ==
    IF TestVerdict(t, r) = "error" THEN {"raised"}
    ELSE IF t \in TryTests /\ TestVerdict(t, r) = "pass" THEN ContentOutcomes
    ELSE IF t = 1 /\ TestVerdict(t, r) = "pass" THEN InfoShapes
    ELSE IF t = 2 /\ TestVerdict(t, r) = "pass" THEN ToolsShapes
    ELSE {"none"}

\* the test method judges the response; exceptions are counted by the loop
SuEval ==
    /\ script = "suite" /\ pc = "su_eval"
    /\ \E o \in SuHandling(idx, resp) :
        /\ content' = o
        /\ LET v == IF o \in ContentOutcomes THEN SecondaryVerdict(o)
                     ELSE SuCounts(TestVerdict(idx, resp)) IN
            /\ verdicts' = Append(verdicts, v)
            /\ passed' = Count(passed, v = "pass")
            /\ failed' = Count(failed, v # "pass")
            /\ idx' = SuNextIdx(idx, v)
            /\ pc' = SuAfter(v)
    /\ resp' = NoResp
    /\ UNCHANGED <<script, command, expired, benchVars, procs, sent, started, request_id, thread,
                   captured>>

\* a KeyboardInterrupt raised inside the try block of the secondary parse is
\* caught by the bare "except:" of the test method: the raw text is
\* printed, the step counts a pass and the loop goes on
SuInterruptSwallowed ==
    /\ script = "suite" /\ pc = "su_eval"
    /\ idx \in TryTests /\ TestVerdict(idx, resp) = "pass"
    /\ content' = "interrupted"
    /\ verdicts' = Append(verdicts, "pass")
    /\ passed' = Count(passed, TRUE)
    /\ idx' = idx + 1
    /\ pc' = "su_loop"
    /\ resp' = NoResp
    /\ UNCHANGED <<script, command, expired, benchVars, procs, sent, started, failed, request_id,
                   thread, captured>>

\* a KeyboardInterrupt anywhere else in the step reaches the loop:
\* except KeyboardInterrupt: break
SuKeyboardInterrupt ==
    /\ script = "suite" /\ pc \in {"su_communicate", "su_eval"}
    /\ procs' = IF pc = "su_communicate" THEN Drop(procs, Cur) ELSE procs
    /\ resp' = NoResp
    /\ pc' = "su_summary"
    /\ UNCHANGED <<script, command, expired, benchVars, content, sent, idx, started, verdicts, passed, failed,
                   request_id, thread, captured>>

SuLoopEnd ==
    /\ script = "suite" /\ pc = "su_loop" /\ idx > NumTests
    /\ pc' = "su_summary"
    /\ UNCHANGED <<script, command, expired, benchVars, content, procs, sent, resp, idx, started, verdicts, passed,
                   failed, request_id, thread, captured>>

\* the summary divides by passed + failed
SuSummary ==
    /\ script = "suite" /\ pc = "su_summary"
    /\ pc' = IF passed + failed = 0 THEN "crashed" ELSE "done"
    /\ UNCHANGED <<script, command, expired, benchVars, content, procs, sent, resp, idx, started, verdicts, passed,
                   failed, request_id, thread, captured>>

(***************************************************************************)
(* test_mcp_client.py and test_mcp_client_with_timeout.py: MCPClient.      *)
(* The two main() functions run the same five steps with the same          *)
(* branches; they differ in send_request.                                  *)
(***************************************************************************)
NumSteps == 5

\* the branch main() takes on the response of step k: "pass", "fail", or
\* "error" when printing the outcome raises (main has no handler)
MainVerdict(k, r) ==
    IF k = 1
    THEN IF r.kind # "json" THEN "fail"
         ELSE IF r.hasResult /\ r.malformed THEN "error" ELSE "pass"
    ELSE IF r.kind = "json" /\ r.hasResult
         THEN IF r.malformed THEN "error" ELSE "pass"
         ELSE IF k >= 3 /\ r.kind = "json" /\ r.hasError /\ r.malformed
              THEN "error" ELSE "fail"

MainStopsOnFailFirstOnly(k) == k = 1

\* after a failed step: steps 1 and 2 return, step 4 skips step 5
MainStopsOnFail(k) == k \in {1, 2, 4}

\* where main() goes after step k with verdict v
MainAfter(k, v) ==
    IF v = "error" THEN "crashed"
    ELSE IF k = NumSteps \/ (v = "fail" /\ MainStopsOnFail(k)) THEN "done"
    ELSE "main"

NextRequestIdNoIncrement == request_id

\* self.request_id += 1 and the request that carries it
NextRequestId == request_id + 1

\* test_mcp_client.py send_request up to communicate(); Popen may raise
ClCall ==
    /\ script = "client" /\ pc = "main"
    /\ request_id' = NextRequestId
    /\ started' = Append(started, idx)
    /\ \/ Spawn(NextRequestId) /\ pc' = "cl_communicate"
       \/ pc' = "crashed" /\ UNCHANGED <<procs, sent>>
    /\ UNCHANGED <<script, command, expired, benchVars, content, resp, idx, verdicts, passed, failed, thread, captured>>

\* communicate() without a timeout returns when the child has exited
ClCommunicateDone ==
    /\ script = "client" /\ pc = "cl_communicate" /\ ~Alive(Cur)
    /\ resp' = ParseOrNone(Stdout(Cur))
    /\ procs' = Drop(procs, Cur)
    /\ pc' = "main_eval"
    /\ UNCHANGED <<script, command, expired, benchVars, content, sent, idx, started, verdicts, passed, failed,
                   request_id, thread, captured>>

\* test_mcp_client_with_timeout.py send_request up to thread.join(timeout)
TcCall ==
    /\ script = "tclient" /\ pc = "main"
    /\ request_id' = NextRequestId
    /\ started' = Append(started, idx)
    /\ \/ /\ Spawn(NextRequestId)
          /\ thread' = "running"
          /\ captured' = NoResp
          /\ pc' = "tc_join"
       \/ pc' = "crashed" /\ UNCHANGED <<procs, sent, thread, captured>>
    /\ expired' = FALSE
    /\ UNCHANGED <<script, command, benchVars, content, resp, idx, verdicts, passed, failed>>

\* target(): communicate() without a timeout, then the nonlocal assignment
TcWorkerFinish ==
    /\ script = "tclient" /\ thread = "running" /\ ~Alive(Cur)
    /\ captured' = Stdout(Cur)
    /\ thread' = "finished"
    /\ UNCHANGED <<script, command, expired, benchVars, content, pc, procs, sent, resp, idx, started, verdicts,
                   passed, failed, request_id>>

\* thread.join(timeout) returns because the worker finished
TcJoinDone ==
    /\ script = "tclient" /\ pc = "tc_join" /\ thread = "finished"
    /\ pc' = "tc_check"
    /\ UNCHANGED <<script, command, expired, benchVars, content, procs, sent, resp, idx, started, verdicts, passed,
                   failed, request_id, thread, captured>>

\* thread.join(timeout) returns because the timeout elapsed
TcJoinTimeout ==
    /\ script = "tclient" /\ pc = "tc_join" /\ thread = "running"
    /\ pc' = "tc_check"
    /\ expired' = TRUE
    /\ UNCHANGED <<script, command, benchVars, content, procs, sent, resp, idx, started, verdicts, passed,
                   failed, request_id, thread, captured>>

TerminateKills(ps, p, honoured) == [ps EXCEPT ![p].st = "dead"]

\* process.terminate(): SIGTERM to a live child, which honours or ignores it
Terminate(ps, p, honoured) ==
    IF ps[p].st = "run"
    THEN [ps EXCEPT ![p].st = IF honoured THEN "terming" ELSE "stubborn"]
    ELSE ps

\* process.kill(): SIGKILL
Kill(ps, p) == [ps EXCEPT ![p].st = "dead"]

TcCheckAliveReadsAnyway ==
    /\ script = "tclient" /\ pc = "tc_check"
    /\ resp' = ParseOrNone(Stdout(Cur))
    /\ procs' = Drop(procs, Cur)
    /\ thread' = "none"
    /\ captured' = NoResp
    /\ pc' = "main_eval"
    /\ UNCHANGED <<script, command, expired, benchVars, content, sent, idx, started, verdicts,
                   passed, failed, request_id>>

\* if thread.is_alive(): process.terminate(), then thread.join()
TcCheckAlive ==
    /\ script = "tclient" /\ pc = "tc_check"
    /\ IF thread = "running"
       THEN /\ \E h \in BOOLEAN : procs' = Terminate(procs, Cur, h)
            /\ pc' = "tc_join2"
            /\ UNCHANGED <<resp, thread, captured>>
       ELSE /\ resp' = ParseOrNone(captured)
            /\ procs' = Drop(procs, Cur)
            /\ thread' = "none"
            /\ captured' = NoResp
            /\ pc' = "main_eval"
    /\ UNCHANGED <<script, command, expired, benchVars, content, sent, idx, started, verdicts, passed, failed,
                   request_id>>

TcJoin2DoneNoWait ==
    /\ script = "tclient" /\ pc = "tc_join2"
    /\ resp' = NoResp
    /\ procs' = Drop(procs, Cur)
    /\ thread' = "none"
    /\ captured' = NoResp
    /\ pc' = "main_eval"
    /\ UNCHANGED <<script, command, expired, benchVars, content, sent, idx, started, verdicts,
                   passed, failed, request_id>>

\* thread.join() after terminate() has no timeout; then return None
TcJoin2Done ==
    /\ script = "tclient" /\ pc = "tc_join2" /\ thread = "finished"
    /\ resp' = NoResp
    /\ procs' = Drop(procs, Cur)
    /\ thread' = "none"
    /\ captured' = NoResp
    /\ pc' = "main_eval"
    /\ UNCHANGED <<script, command, expired, benchVars, content, sent, idx, started, verdicts, passed, failed,
                   request_id>>

\* main() judges the response of step idx and moves on, returns or crashes
MainEval ==
    /\ script \in {"client", "tclient"} /\ pc = "main_eval"
    /\ LET v == MainVerdict(idx, resp) IN
        /\ verdicts' = Append(verdicts, v)
        /\ pc' = MainAfter(idx, v)
        /\ idx' = IF MainAfter(idx, v) = "main" THEN idx + 1 ELSE idx
    /\ resp' = NoResp
    /\ UNCHANGED <<script, command, expired, benchVars, content, procs, sent, started, passed, failed, request_id,
                   thread, captured>>

(***************************************************************************)
(* test_claude_simulation.py                                               *)
(***************************************************************************)
SimIds == <<0, 1, 2>>

\* the complaints the validation prints about a parsed response
SimComplaints(req, r) ==
    (IF ~r.jsonrpc THEN {"jsonrpc"} ELSE {})
    \cup (IF r.id = NoId THEN {"missing id"}
          ELSE IF r.id # req THEN {"id mismatch"} ELSE {})
    \cup (IF ~r.hasResult /\ ~r.hasError THEN {"missing both"} ELSE {})

\* what one iteration reports about the stdout it got: the line
\* "JSON-RPC format valid" is printed after the checks, whatever they found
SimVerdict(req, r) ==
    IF r.kind = "none" THEN "no response"
    ELSE IF r.kind = "garbage" THEN "invalid json"
    ELSE "valid"

\* for test in test_requests: Popen and communicate(timeout=15)
SimCall ==
    /\ script = "sim" /\ pc = "sim_loop" /\ idx <= Len(SimIds)
    /\ started' = Append(started, idx)
    /\ \/ /\ Spawn(SimIds[idx])
          /\ pc' = "sim_communicate"
          /\ UNCHANGED <<idx, verdicts>>
       \/ /\ verdicts' = Append(verdicts, "error")
          /\ idx' = idx + 1
          /\ UNCHANGED <<pc, procs, sent>>
    /\ UNCHANGED <<script, command, expired, benchVars, content, resp, passed, failed, request_id, thread, captured>>

SimCommunicateDone ==
    /\ script = "sim" /\ pc = "sim_communicate" /\ ~Alive(Cur)
    /\ resp' = Stdout(Cur)
    /\ procs' = Drop(procs, Cur)
    /\ pc' = "sim_eval"
    /\ UNCHANGED <<script, command, expired, benchVars, content, sent, idx, started, verdicts, passed, failed,
                   request_id, thread, captured>>

\* except subprocess.TimeoutExpired: process.kill()
SimTimeoutExpired ==
    /\ script = "sim" /\ pc = "sim_communicate" /\ Alive(Cur)
    /\ procs' = Drop(Kill(procs, Cur), Cur)
    /\ verdicts' = Append(verdicts, "timeout")
    /\ idx' = idx + 1
    /\ pc' = "sim_loop"
    /\ UNCHANGED <<script, command, expired, benchVars, content, sent, resp, started, passed, failed, request_id,
                   thread, captured>>

SimEval ==
    /\ script = "sim" /\ pc = "sim_eval"
    /\ verdicts' = Append(verdicts, SimVerdict(SimIds[idx], resp))
    /\ resp' = NoResp
    /\ idx' = idx + 1
    /\ pc' = "sim_loop"
    /\ UNCHANGED <<script, command, expired, benchVars, content, procs, sent, started, passed, failed, request_id,
                   thread, captured>>

SimLoopEnd ==
    /\ script = "sim" /\ pc = "sim_loop" /\ idx > Len(SimIds)
    /\ pc' = "done"
    /\ UNCHANGED <<script, command, expired, benchVars, content, procs, sent, resp, idx, started, verdicts, passed,
                   failed, request_id, thread, captured>>

(***************************************************************************)
(* Persistent sessions: test_flow_logs_mcp.py ("flow"),                    *)
(* test_analyze_blocked_mcp.py ("blocked") and                             *)
(* test_setup_portforward_mcp.py ("setup").  One process, requests written *)
(* to its stdin and one line read per request, cleanup in a finally block. *)
(***************************************************************************)
PsScripts == {"flow", "blocked", "setup"}

\* the "id" members of the requests, in the order they are written
PsIdsToolFirst(s) == IF s = "flow" THEN <<2, 1, 3>> ELSE <<2, 1>>

PsIds(s) == IF s = "flow" THEN <<1, 2, 3>> ELSE <<1, 2>>

\* "method" of the request a session script writes with this "id"
MethodOf(id) == IF id = 1 THEN "initialize" ELSE "tools/call"

\* test_setup_portforward_mcp.py sleeps and polls stdout with select()
\* before it reads the line of its tool call
PsPolls(s, k) == s = "setup" /\ k = 2

\* what the script makes of the k-th line read: the handshake line is only
\* printed ("read"); "raise" is an exception that leaves through finally
PsVerdict(s, k, r) ==
    IF k = 1 THEN "read"
    ELSE IF r.kind # "json" THEN "fail"
    ELSE IF r.hasError THEN "fail"
    ELSE IF s = "flow" THEN "pass"
    ELSE IF r.hasResult THEN (IF r.malformed THEN "raise" ELSE "pass")
    ELSE "fail"

\* test_analyze_blocked_flows returns after judging its second line
PsLastStep(s, k, v) ==
    \/ v = "raise"
    \/ k = Len(PsIds(s))

PsStart ==
    /\ script \in PsScripts /\ pc = "ps_start"
    /\ \/ procs' = <<NewProc>> /\ pc' = "ps_write"
       \/ procs' = procs /\ pc' = "crashed"
    /\ UNCHANGED <<script, command, expired, benchVars, content, sent, resp, idx, started, verdicts, passed, failed,
                   request_id, thread, captured>>

PsWriteUnflushed ==
    /\ script \in PsScripts /\ pc = "ps_write"
    /\ started' = Append(started, idx)
    /\ sent' = Append(sent, [p |-> 1, id |-> PsIds(script)[idx]])
    /\ pc' = IF PsPolls(script, idx) THEN "ps_select" ELSE "ps_read"
    /\ UNCHANGED <<script, command, expired, benchVars, content, procs, resp, idx, verdicts,
                   passed, failed, request_id, thread, captured>>

\* process.stdin.write(json.dumps(request) + "\n"); process.stdin.flush()
PsWrite ==
    /\ script \in PsScripts /\ pc = "ps_write"
    /\ started' = Append(started, idx)
    /\ IF Alive(1)
       THEN /\ procs' = [procs EXCEPT ![1].req = Append(@, PsIds(script)[idx])]
            /\ sent' = Append(sent, [p |-> 1, id |-> PsIds(script)[idx]])
            /\ pc' = IF PsPolls(script, idx) THEN "ps_select" ELSE "ps_read"
            /\ UNCHANGED verdicts
       ELSE /\ verdicts' = Append(verdicts, "raise")
            /\ pc' = "ps_cleanup"
            /\ UNCHANGED <<procs, sent>>
    /\ UNCHANGED <<script, command, expired, benchVars, content, resp, idx, passed, failed, request_id, thread,
                   captured>>

\* time.sleep(4); select.select([process.stdout], [], [], 1) finds stdout
\* readable: a line or the end of file is there
PsSelectReadable ==
    /\ script \in PsScripts /\ pc = "ps_select"
    /\ procs[1].out # <<>> \/ ~Alive(1)
    /\ pc' = "ps_read"
    /\ UNCHANGED <<script, command, expired, benchVars, content, procs, sent, resp, idx, started,
                   verdicts, passed, failed, request_id, thread, captured>>

\* what the script reports when select() times out: "No response received
\* ... This is expected", return True
PsSilent == "silent"

\* select() times out: nothing to read from a live server
PsSelectTimeout ==
    /\ script \in PsScripts /\ pc = "ps_select"
    /\ procs[1].out = <<>> /\ Alive(1)
    /\ verdicts' = Append(verdicts, PsSilent)
    /\ pc' = "ps_cleanup"
    /\ UNCHANGED <<script, command, expired, benchVars, content, procs, sent, resp, idx, started,
                   passed, failed, request_id, thread, captured>>

PsReadlineNoWait ==
    /\ script \in PsScripts /\ pc = "ps_read"
    /\ idx < Len(PsIds(script))
    /\ idx' = idx + 1
    /\ pc' = "ps_write"
    /\ UNCHANGED <<script, command, expired, benchVars, content, procs, sent, resp, started,
                   verdicts, passed, failed, request_id, thread, captured>>

\* process.stdout.readline(): a line, or "" at end of file; no timeout
PsReadline ==
    /\ script \in PsScripts /\ pc = "ps_read"
    /\ procs[1].out # <<>> \/ ~Alive(1)
    /\ IF procs[1].out # <<>>
       THEN /\ resp' = Head(procs[1].out)
            /\ procs' = [procs EXCEPT ![1].out = Tail(@)]
       ELSE /\ resp' = NoResp
            /\ procs' = procs
    /\ pc' = "ps_eval"
    /\ UNCHANGED <<script, command, expired, benchVars, content, sent, idx, started, verdicts, passed, failed,
                   request_id, thread, captured>>

PsEval ==
    /\ script \in PsScripts /\ pc = "ps_eval"
    /\ LET v == PsVerdict(script, idx, resp) IN
        /\ verdicts' = Append(verdicts, v)
        /\ IF PsLastStep(script, idx, v)
           THEN pc' = "ps_cleanup" /\ idx' = idx
           ELSE pc' = "ps_write" /\ idx' = idx + 1
    /\ resp' = NoResp
    /\ UNCHANGED <<script, command, expired, benchVars, content, procs, sent, started, passed, failed, request_id,
                   thread, captured>>

\* finally: process.terminate()
PsTerminate ==
    /\ script \in PsScripts /\ pc = "ps_cleanup"
    /\ \E h \in BOOLEAN : procs' = Terminate(procs, 1, h)
    /\ pc' = "ps_wait"
    /\ UNCHANGED <<script, command, expired, benchVars, content, sent, resp, idx, started, verdicts, passed, failed,
                   request_id, thread, captured>>

\* process.wait(timeout=5) returns: the child has exited
PsWaitDone ==
    /\ script \in PsScripts /\ pc = "ps_wait" /\ ~Alive(1)
    /\ pc' = "ps_stderr"
    /\ UNCHANGED <<script, command, expired, benchVars, content, procs, sent, resp, idx, started, verdicts, passed,
                   failed, request_id, thread, captured>>

\* except subprocess.TimeoutExpired: process.kill() (followed by
\* process.wait() in test_setup_portforward_mcp.py)
PsWaitTimeout ==
    /\ script \in PsScripts /\ pc = "ps_wait" /\ Alive(1)
    /\ procs' = Kill(procs, 1)
    /\ pc' = "ps_stderr"
    /\ UNCHANGED <<script, command, expired, benchVars, content, sent, resp, idx, started, verdicts, passed, failed,
                   request_id, thread, captured>>

\* process.stderr.read() up to end of file, then the function is left
PsStderrRead ==
    /\ script \in PsScripts /\ pc = "ps_stderr" /\ ~Alive(1)
    /\ procs' = Drop(procs, 1)
    /\ pc' = IF verdicts # <<>> /\ verdicts[Len(verdicts)] = "raise"
             THEN "crashed" ELSE "done"
    /\ UNCHANGED <<script, command, expired, benchVars, content, sent, resp, idx, started, verdicts, passed, failed,
                   request_id, thread, captured>>

(***************************************************************************)
(* test_idempotent_portforward.py ("idem"): process 1 is the standalone    *)
(* port-forward (pf_process), process 2 the MCP session (mcp_process).     *)
(***************************************************************************)
PfProc == 1

McpProc == 2

\* the "id" members of initialize, get_flow_logs, get_aggregated_flow_logs
IdIds == <<1, 2, 3>>

\* Popen of the port-forward (before the outer try), then time.sleep(3)
IdStart ==
    /\ script = "idem" /\ pc = "id_start"
    /\ \/ procs' = <<NewProc>> /\ pc' = "id_spawn"
       \/ procs' = procs /\ pc' = "crashed"
    /\ UNCHANGED <<script, command, expired, sent, resp, idx, started, verdicts, passed, failed,
                   request_id, thread, captured, content, benchVars>>

\* a KeyboardInterrupt during time.sleep(3): the sleep is before the outer
\* try, so no finally block runs and the port-forward is left behind
IdKeyboardInterrupt ==
    /\ script = "idem" /\ pc = "id_spawn"
    /\ procs' = Drop(procs, PfProc)
    /\ pc' = "crashed"
    /\ UNCHANGED <<script, command, expired, sent, resp, idx, started, verdicts, passed,
                   failed, request_id, thread, captured, content, benchVars>>

\* Popen of the MCP server inside the outer try; a failure leaves through
\* the outer finally
IdSpawnMcp ==
    /\ script = "idem" /\ pc = "id_spawn"
    /\ \/ /\ procs' = Append(procs, NewProc)
          /\ pc' = "id_write"
          /\ UNCHANGED verdicts
       \/ /\ verdicts' = Append(verdicts, "raise")
          /\ pc' = "id_pf_cleanup"
          /\ UNCHANGED procs
    /\ UNCHANGED <<script, command, expired, sent, resp, idx, started, passed, failed,
                   request_id, thread, captured, content, benchVars>>

\* mcp_process.stdin.write(...); mcp_process.stdin.flush()
IdWrite ==
    /\ script = "idem" /\ pc = "id_write"
    /\ started' = Append(started, idx)
    /\ IF Alive(McpProc)
       THEN /\ procs' = [procs EXCEPT ![McpProc].req = Append(@, IdIds[idx])]
            /\ sent' = Append(sent, [p |-> McpProc, id |-> IdIds[idx]])
            /\ pc' = "id_read"
            /\ UNCHANGED verdicts
       ELSE /\ verdicts' = Append(verdicts, "raise")
            /\ pc' = "id_cleanup"
            /\ UNCHANGED <<procs, sent>>
    /\ UNCHANGED <<script, command, expired, resp, idx, passed, failed, request_id, thread,
                   captured, content, benchVars>>

\* mcp_process.stdout.readline(): a line, or "" at end of file; no timeout
IdReadline ==
    /\ script = "idem" /\ pc = "id_read"
    /\ procs[McpProc].out # <<>> \/ ~Alive(McpProc)
    /\ IF procs[McpProc].out # <<>>
       THEN /\ resp' = Head(procs[McpProc].out)
            /\ procs' = [procs EXCEPT ![McpProc].out = Tail(@)]
       ELSE /\ resp' = NoResp
            /\ procs' = procs
    /\ pc' = "id_eval"
    /\ UNCHANGED <<script, command, expired, sent, idx, started, verdicts, passed, failed,
                   request_id, thread, captured, content, benchVars>>

\* what the script makes of the k-th line: the handshake line is not looked
\* at; a tool call fails on a line that is not JSON or has an "error" member
IdVerdict(k, r) ==
    IF k = 1 THEN "read"
    ELSE IF r.kind # "json" THEN "fail"
    ELSE IF r.hasError THEN "fail"
    ELSE "pass"

\* return False after a failed tool call, return True after the last one
IdEval ==
    /\ script = "idem" /\ pc = "id_eval"
    /\ LET v == IdVerdict(idx, resp) IN
        /\ verdicts' = Append(verdicts, v)
        /\ IF v = "fail" \/ idx = Len(IdIds)
           THEN pc' = "id_cleanup" /\ idx' = idx
           ELSE pc' = "id_write" /\ idx' = idx + 1
    /\ resp' = NoResp
    /\ UNCHANGED <<script, command, expired, procs, sent, started, passed, failed, request_id,
                   thread, captured, content, benchVars>>

\* inner finally: mcp_process.terminate()
IdTerminate ==
    /\ script = "idem" /\ pc = "id_cleanup"
    /\ \E h \in BOOLEAN : procs' = Terminate(procs, McpProc, h)
    /\ pc' = "id_wait"
    /\ UNCHANGED <<script, command, expired, sent, resp, idx, started, verdicts, passed, failed,
                   request_id, thread, captured, content, benchVars>>

\* mcp_process.wait(timeout=2) returns: the child has exited
IdWaitDone ==
    /\ script = "idem" /\ pc = "id_wait" /\ ~Alive(McpProc)
    /\ pc' = "id_pf_cleanup"
    /\ UNCHANGED <<script, command, expired, procs, sent, resp, idx, started, verdicts, passed,
                   failed, request_id, thread, captured, content, benchVars>>

\* except subprocess.TimeoutExpired: mcp_process.kill()
IdWaitTimeout ==
    /\ script = "idem" /\ pc = "id_wait" /\ Alive(McpProc)
    /\ procs' = Kill(procs, McpProc)
    /\ pc' = "id_pf_cleanup"
    /\ UNCHANGED <<script, command, expired, sent, resp, idx, started, verdicts, passed, failed,
                   request_id, thread, captured, content, benchVars>>

\* outer finally: pf_process.terminate()
IdPfTerminate ==
    /\ script = "idem" /\ pc = "id_pf_cleanup"
    /\ \E h \in BOOLEAN : procs' = Terminate(procs, PfProc, h)
    /\ pc' = "id_pf_wait"
    /\ UNCHANGED <<script, command, expired, sent, resp, idx, started, verdicts, passed, failed,
                   request_id, thread, captured, content, benchVars>>

\* the pipes of both processes go with the function's locals
IdLeave(ps) == [p \in 1..Len(ps) |-> Drop(ps, p)[p]]

\* pf_process.wait(timeout=2) returns; the function is left
IdPfWaitDone ==
    /\ script = "idem" /\ pc = "id_pf_wait" /\ ~Alive(PfProc)
    /\ procs' = IdLeave(procs)
    /\ pc' = IF Last(verdicts) = "raise" THEN "crashed" ELSE "done"
    /\ UNCHANGED <<script, command, expired, sent, resp, idx, started, verdicts, passed, failed,
                   request_id, thread, captured, content, benchVars>>

\* except subprocess.TimeoutExpired: pf_process.kill(); the function is left
IdPfWaitTimeout ==
    /\ script = "idem" /\ pc = "id_pf_wait" /\ Alive(PfProc)
    /\ procs' = IdLeave(Kill(procs, PfProc))
    /\ pc' = IF Last(verdicts) = "raise" THEN "crashed" ELSE "done"
    /\ UNCHANGED <<script, command, expired, sent, resp, idx, started, verdicts, passed, failed,
                   request_id, thread, captured, content, benchVars>>

\* the server of a persistent session writes to its stderr, a pipe that the
\* script reads only in its cleanup: the chunk goes into the pipe, or the
\* pipe is full and the server stays in the write
ServerLog ==
    /\ script \in PsScripts \cup {"idem"}
    /\ \E p \in 1..Len(procs) :
        /\ script = "idem" => p = McpProc
        /\ procs[p].st \in {"run", "stubborn"}
        /\ procs[p].held
        /\ ~ErrBlocked(p)
        /\ procs' = [procs EXCEPT ![p].err = @ + 1]
    /\ UNCHANGED <<script, command, expired, benchVars, content, pc, sent, resp, idx, started,
                   verdicts, passed, failed, request_id, thread, captured>>

(***************************************************************************)
(* test_tool.py: one tools/call request to a fresh server, no timeout      *)
(***************************************************************************)
\* Popen (outside any try) and the request with id 1
TtCall ==
    /\ script = "tool" /\ pc = "tt_start"
    /\ started' = Append(started, idx)
    /\ \/ Spawn(1) /\ pc' = "tt_communicate"
       \/ pc' = "crashed" /\ UNCHANGED <<procs, sent>>
    /\ UNCHANGED <<script, command, expired, resp, idx, verdicts, passed, failed, request_id,
                   thread, captured, content, benchVars>>

\* communicate() without a timeout returns when the child has exited
TtCommunicateDone ==
    /\ script = "tool" /\ pc = "tt_communicate" /\ ~Alive(Cur)
    /\ resp' = Stdout(Cur)
    /\ procs' = Drop(procs, Cur)
    /\ pc' = "tt_eval"
    /\ UNCHANGED <<script, command, expired, sent, idx, started, verdicts, passed, failed,
                   request_id, thread, captured, content, benchVars>>

\* what test_mcp_tool prints about stdout; "raise": the content access or
\* error.get raised, only json.JSONDecodeError is caught
TtVerdict(r) ==
    IF r.kind = "none" THEN "no response"
    ELSE IF r.kind = "garbage" THEN "invalid json"
    ELSE IF r.hasResult THEN (IF r.malformed THEN "raise" ELSE "pass")
    ELSE IF r.hasError /\ r.malformed THEN "raise"
    ELSE "fail"

\* the value test_mcp_tool prints for a result: json.dumps of whatever
\* json.loads(content) gave, or content itself under the bare except
TtContentUsed(o) == IF o = "unparsable" THEN "raw" ELSE "structured"

TtEval ==
    /\ script = "tool" /\ pc = "tt_eval"
    /\ LET v == TtVerdict(resp) IN
        /\ verdicts' = Append(verdicts, v)
        /\ content' \in IF v = "pass" THEN ContentOutcomes ELSE {"none"}
        /\ pc' = IF v = "raise" THEN "crashed" ELSE "done"
    /\ resp' = NoResp
    /\ UNCHANGED <<script, command, expired, procs, sent, idx, started, passed, failed,
                   request_id, thread, captured, benchVars>>

(***************************************************************************)
(* benchmark.py: MCPBenchmark.  Durations are whole ticks; a quotient the  *)
(* code computes in floating point is kept as the pair <<numerator,        *)
(* denominator>>, and std_dev by its square.                               *)
(***************************************************************************)
NumBenchmarks == 3

Iterations == 3

MaxDuration == 3

\* what end_time - start_time can give for one attempt: the attempts of a
\* whole suite run take one tick each, samples of 1 to MaxDuration ticks
\* are what the statistics are applied to
Durations == IF script = "stats" THEN 1..MaxDuration ELSE {1}

\* the lists benchmark_tool can hold in times after its loop
RECURSIVE SeqsUpTo(_, _)
SeqsUpTo(S, n) ==
    IF n = 0 THEN {<<>>}
    ELSE LET shorter == SeqsUpTo(S, n - 1) IN
         shorter \cup {Append(q, x) : q \in shorter, x \in S}

RECURSIVE Sum(_)
Sum(q) == IF q = <<>> THEN 0 ELSE Head(q) + Sum(Tail(q))

Min(q) == CHOOSE x \in {q[k] : k \in 1..Len(q)} : \A k \in 1..Len(q) : x <= q[k]

Max(q) == CHOOSE x \in {q[k] : k \in 1..Len(q)} : \A k \in 1..Len(q) : x >= q[k]

\* statistics.mean(times)
Mean(q) == <<Sum(q), Len(q)>>

PopulationVariance(q) ==
    LET n == Len(q)
        dev == [k \in 1..n |-> (n * q[k] - Sum(q)) * (n * q[k] - Sum(q))]
    IN  <<Sum(dev), n * n * n>>

\* statistics.stdev(times) squared: the sum of the squared deviations from
\* the mean, over n - 1
Variance(q) ==
    LET n == Len(q)
        dev == [k \in 1..n |-> (n * q[k] - Sum(q)) * (n * q[k] - Sum(q))]
    IN  <<Sum(dev), n * n * (n - 1)>>

\* no entry in self.results
NoSummary == [present |-> FALSE]

\* the entry benchmark_tool stores for a tool with at least one success
Summary(ts, sc, its) ==
    [present |-> TRUE,
     success_rate |-> <<sc * 100, its>>,
     avg_time |-> Mean(ts),
     min_time |-> Min(ts),
     max_time |-> Max(ts),
     std_dev_sq |-> IF Len(ts) > 1 THEN Variance(ts) ELSE <<0, 1>>]

\* if times: the entry is stored only when some attempt succeeded
StoreSummary(ts, sc, its) == ts # <<>>

\* run_benchmark_suite up to the loop: the binary must exist
BeStart ==
    /\ script = "bench" /\ pc = "be_start"
    /\ \/ pc' = "be_tool"
       \/ pc' = "done"
    /\ UNCHANGED <<script, command, expired, procs, sent, resp, idx, started, verdicts, passed,
                   failed, request_id, thread, captured, content, benchVars>>

\* for tool_name, args in benchmarks: benchmark_tool starts with empty times
BeToolStart ==
    /\ script = "bench" /\ pc = "be_tool" /\ idx <= NumBenchmarks
    /\ started' = Append(started, idx)
    /\ iter' = 0
    /\ times' = <<>>
    /\ success_count' = 0
    /\ pc' = "be_loop"
    /\ UNCHANGED <<script, command, expired, procs, sent, resp, idx, verdicts, passed, failed,
                   request_id, thread, captured, content, results>>

\* for i in range(iterations): Popen of the binary BeStart found, and the
\* request with id i + 1
BeCall ==
    /\ script = "bench" /\ pc = "be_loop" /\ iter < Iterations
    /\ Spawn(iter + 1)
    /\ pc' = "be_communicate"
    /\ UNCHANGED <<script, command, expired, resp, idx, started, verdicts, passed, failed,
                   request_id, thread, captured, content, benchVars>>

BeSuccessOnAnyJson(r) == r.kind = "json"

\* is the attempt a success: stdout is a JSON value with a "result" member
BeSuccess(r) == r.kind = "json" /\ r.hasResult

\* communicate(timeout=60) returns; only a success records its duration
BeCommunicateDone ==
    /\ script = "bench" /\ pc = "be_communicate" /\ ~Alive(Cur)
    /\ IF BeSuccess(Stdout(Cur))
       THEN /\ \E d \in Durations : times' = Append(times, d)
            /\ success_count' = success_count + 1
       ELSE UNCHANGED <<times, success_count>>
    /\ procs' = Drop(procs, Cur)
    /\ iter' = iter + 1
    /\ pc' = "be_loop"
    /\ UNCHANGED <<script, command, expired, sent, resp, idx, started, verdicts, passed, failed,
                   request_id, thread, captured, content, results>>

\* communicate raises TimeoutExpired: "except Exception" prints and goes on
\* (as it does when json.loads raises); nothing stops the child
BeTimeoutExpired ==
    /\ script = "bench" /\ pc = "be_communicate" /\ Alive(Cur)
    /\ procs' = Drop(procs, Cur)
    /\ iter' = iter + 1
    /\ pc' = "be_loop"
    /\ UNCHANGED <<script, command, expired, sent, resp, idx, started, verdicts, passed, failed,
                   request_id, thread, captured, content, times,
                   success_count, results>>

\* after the loop of benchmark_tool: the entry of self.results
BeToolEnd ==
    /\ script = "bench" /\ pc = "be_loop" /\ iter = Iterations
    /\ results' = IF StoreSummary(times, success_count, Iterations)
                  THEN [results EXCEPT
                          ![idx] = Summary(times, success_count, Iterations)]
                  ELSE results
    /\ idx' = idx + 1
    /\ pc' = "be_tool"
    /\ UNCHANGED <<script, command, expired, procs, sent, resp, started, verdicts, passed,
                   failed, request_id, thread, captured, content, iter, times,
                   success_count>>

\* a KeyboardInterrupt inside benchmark_tool leaves it without reaching the
\* block after the loop: except KeyboardInterrupt: break
BeKeyboardInterrupt ==
    /\ script = "bench" /\ pc \in {"be_loop", "be_communicate"}
    /\ procs' = IF pc = "be_communicate" THEN Drop(procs, Cur) ELSE procs
    /\ pc' = "be_summary"
    /\ UNCHANGED <<script, command, expired, sent, resp, idx, started, verdicts, passed, failed,
                   request_id, thread, captured, content, benchVars>>

BeLoopEnd ==
    /\ script = "bench" /\ pc = "be_tool" /\ idx > NumBenchmarks
    /\ pc' = "be_summary"
    /\ UNCHANGED <<script, command, expired, procs, sent, resp, idx, started, verdicts, passed,
                   failed, request_id, thread, captured, content, benchVars>>

\* the summary prints one line per entry of self.results
BeSummary ==
    /\ script = "bench" /\ pc = "be_summary"
    /\ pc' = "done"
    /\ UNCHANGED <<script, command, expired, procs, sent, resp, idx, started, verdicts, passed,
                   failed, request_id, thread, captured, content, benchVars>>

\* the block after the loop of benchmark_tool, applied to the list of
\* durations an arbitrary loop has left (script "stats")
StatsApply ==
    /\ script = "stats" /\ pc = "st_apply"
    /\ results' = IF StoreSummary(times, success_count, Iterations)
                  THEN [results EXCEPT
                          ![idx] = Summary(times, success_count, Iterations)]
                  ELSE results
    /\ pc' = "done"
    /\ UNCHANGED <<script, command, expired, procs, sent, resp, idx, started, verdicts, passed,
                   failed, request_id, thread, captured, content, iter, times,
                   success_count>>

MaxReruns == 1

\* benchmark_tool is called again for the tool it has just finished with:
\* times = [] and success_count = 0, and the loop leaves another list
StatsRerun ==
    /\ script = "stats" /\ pc = "done" /\ Len(started) < MaxReruns
    /\ started' = Append(started, idx)
    /\ times' \in SeqsUpTo(Durations, Iterations)
    /\ success_count' = Len(times')
    /\ pc' = "st_apply"
    /\ UNCHANGED <<script, command, expired, procs, sent, resp, idx, verdicts, passed, failed,
                   request_id, thread, captured, content, iter, results>>

(***************************************************************************)
(* validate_claude_config.py: test_server_path(command, args).  command    *)
(* says whether the configured command is found as a path or on PATH, and  *)
(* what the server it names does with an initialize request: it answers    *)
(* with a "result" or with an "error", writes text that is not JSON,       *)
(* exits without output, or does not answer.                               *)
(***************************************************************************)
ServerAnswers == {"result", "error", "garbage", "none", "hang"}

Commands == [exists : BOOLEAN, answer : ServerAnswers]

\* the value of command in the scripts that take their binary from a
\* constant of their own
NoCommand == [exists |-> TRUE, answer |-> "result"]

\* os.path.exists(command) or a PATH entry that holds it; if neither,
\* return False
VaCommandExists ==
    /\ script = "validate" /\ pc = "va_exists"
    /\ IF command.exists
       THEN pc' = "va_popen" /\ UNCHANGED verdicts
       ELSE pc' = "done" /\ verdicts' = Append(verdicts, "fail")
    /\ UNCHANGED <<script, command, procs, sent, resp, idx, started, passed,
                   failed, request_id, thread, captured, expired, content,
                   benchVars>>

\* subprocess.Popen([command] + args, ..., text=True, timeout=10): Popen
\* takes no timeout argument and raises TypeError before any process is
\* started; "except Exception" prints the error and the function returns
\* False
VaPopen ==
    /\ script = "validate" /\ pc = "va_popen"
    /\ verdicts' = Append(verdicts, "fail")
    /\ pc' = "done"
    /\ UNCHANGED <<script, command, procs, sent, resp, idx, started, passed,
                   failed, request_id, thread, captured, expired, content,
                   benchVars>>

(***************************************************************************)
(* Specification                                                           *)
(***************************************************************************)
Scripts == {"suite", "client", "tclient", "sim", "flow", "blocked", "setup",
            "idem", "tool", "bench", "stats", "validate"}

StartPc(s) ==
    CASE s = "suite" -> "su_start"
      [] s \in {"client", "tclient"} -> "main"
      [] s = "sim" -> "sim_loop"
      [] s \in PsScripts -> "ps_start"
      [] s = "idem" -> "id_start"
      [] s = "tool" -> "tt_start"
      [] s = "bench" -> "be_start"
      [] s = "stats" -> "st_apply"
      [] s = "validate" -> "va_exists"

Init ==
    /\ script \in Scripts
    /\ command \in IF script = "validate" THEN Commands ELSE {NoCommand}
    /\ pc = StartPc(script)
    /\ procs = <<>>
    /\ sent = <<>>
    /\ resp = NoResp
    /\ idx = 1
    /\ started = <<>>
    /\ verdicts = <<>>
    /\ passed = 0
    /\ failed = 0
    /\ request_id = 0
    /\ thread = "none"
    /\ captured = NoResp
    /\ expired = FALSE
    /\ content = "none"
    /\ iter = IF script = "stats" THEN Iterations ELSE 0
    /\ times \in IF script = "stats" THEN SeqsUpTo(Durations, Iterations)
                 ELSE {<<>>}
    /\ success_count = Len(times)
    /\ results = [t \in 1..NumBenchmarks |-> NoSummary]

Next ==
    \/ ServerWrite
    \/ ServerExit
    \/ ServerTermExit
    \/ ServerLog
    \/ SuStart
    \/ SuCall
    \/ SuCommunicateDone
    \/ SuTimeoutExpired
    \/ SuEval
    \/ SuInterruptSwallowed
    \/ SuKeyboardInterrupt
    \/ SuLoopEnd
    \/ SuSummary
    \/ ClCall
    \/ ClCommunicateDone
    \/ TcCall
    \/ TcWorkerFinish
    \/ TcJoinDone
    \/ TcJoinTimeout
    \/ TcCheckAlive
    \/ TcJoin2Done
    \/ MainEval
    \/ SimCall
    \/ SimCommunicateDone
    \/ SimTimeoutExpired
    \/ SimEval
    \/ SimLoopEnd
    \/ PsStart
    \/ PsWrite
    \/ PsSelectReadable
    \/ PsSelectTimeout
    \/ PsReadline
    \/ PsEval
    \/ PsTerminate
    \/ PsWaitDone
    \/ PsWaitTimeout
    \/ PsStderrRead
    \/ IdStart
    \/ IdKeyboardInterrupt
    \/ IdSpawnMcp
    \/ IdWrite
    \/ IdReadline
    \/ IdEval
    \/ IdTerminate
    \/ IdWaitDone
    \/ IdWaitTimeout
    \/ IdPfTerminate
    \/ IdPfWaitDone
    \/ IdPfWaitTimeout
    \/ TtCall
    \/ TtCommunicateDone
    \/ TtEval
    \/ BeStart
    \/ BeToolStart
    \/ BeCall
    \/ BeCommunicateDone
    \/ BeTimeoutExpired
    \/ BeToolEnd
    \/ BeKeyboardInterrupt
    \/ BeLoopEnd
    \/ BeSummary
    \/ StatsApply
    \/ StatsRerun
    \/ VaCommandExists
    \/ VaPopen

Spec == Init /\ [][Next]_vars

(***************************************************************************)
(* Fairness.  The main thread of the script runs whenever it can (a wait   *)
(* with a timeout ends when the timeout elapses), the worker thread        *)
(* runs whenever it can, and a child that honours SIGTERM exits.  Nothing  *)
(* obliges the server to answer or to exit on its own, and nothing obliges *)
(* the user to interrupt.                                                  *)
(***************************************************************************)
MainThread ==
    \/ SuStart \/ SuCall \/ SuCommunicateDone \/ SuTimeoutExpired \/ SuEval
    \/ SuLoopEnd \/ SuSummary
    \/ ClCall \/ ClCommunicateDone
    \/ TcCall \/ TcJoinDone \/ TcJoinTimeout \/ TcCheckAlive \/ TcJoin2Done
    \/ MainEval
    \/ SimCall \/ SimCommunicateDone \/ SimTimeoutExpired \/ SimEval
    \/ SimLoopEnd
    \/ PsStart \/ PsWrite \/ PsSelectReadable \/ PsSelectTimeout
    \/ PsReadline \/ PsEval \/ PsTerminate
    \/ PsWaitDone \/ PsWaitTimeout \/ PsStderrRead
    \/ IdStart \/ IdSpawnMcp \/ IdWrite \/ IdReadline \/ IdEval
    \/ IdTerminate \/ IdWaitDone \/ IdWaitTimeout
    \/ IdPfTerminate \/ IdPfWaitDone \/ IdPfWaitTimeout
    \/ TtCall \/ TtCommunicateDone \/ TtEval
    \/ BeStart \/ BeToolStart \/ BeCall \/ BeCommunicateDone
    \/ BeTimeoutExpired \/ BeToolEnd \/ BeLoopEnd \/ BeSummary
    \/ StatsApply
    \/ VaCommandExists \/ VaPopen

FairSpec ==
    /\ Init /\ [][Next]_vars
    /\ WF_vars(MainThread)
    /\ WF_vars(TcWorkerFinish)
    /\ WF_vars(ServerTermExit)

(***************************************************************************)
(* Properties                                                              *)
(***************************************************************************)
\* positions at which no call is in progress: the operation has returned
ReturnedPcs == {"su_eval", "su_loop", "su_summary", "main", "main_eval",
                "sim_eval", "sim_loop", "done", "crashed"}

\* positions at which the script waits for the server's response
ReadWaits == {"su_communicate", "cl_communicate", "sim_communicate",
              "tc_join", "ps_read", "id_read", "tt_communicate"}

\* positions at which the script judges a response it holds in resp
EvalPcs == {"su_eval", "main_eval", "sim_eval", "ps_eval", "id_eval",
            "tt_eval"}

\* the verdicts that report a response as a success
SuccessVerdicts == {"pass", "valid"}

\* the verdicts after which the function of a script returns True
TrueVerdicts == {"pass", "silent"}

\* the exit status of a script that has ended: 1 after an uncaught
\* exception; sys.exit(0 if success else 1) in test_analyze_blocked_mcp.py,
\* test_setup_portforward_mcp.py and test_idempotent_portforward.py; every
\* other script ends by returning from main(), whatever it has counted
ExitStatus ==
    IF pc = "crashed" THEN 1
    ELSE IF script \in {"blocked", "setup", "idem"}
         THEN IF verdicts # <<>> /\ Last(verdicts) \in TrueVerdicts THEN 0 ELSE 1
         ELSE 0

\* the verdicts of a step that failed, timed out or got no response
FailureVerdicts == {"fail", "error", "raise", "timeout", "silent",
                    "no response", "invalid json"}

\* C1: the child is reaped on every exit path: whenever an operation has
\* returned to its caller, no process spawned so far is still alive.
C1_NoLiveChildAfterReturn ==
    pc \in ReturnedPcs => LiveProcs = {}

\* C2: a call that ends because its timeout expired returns no result and
\* leaves no live child process, on every timeout-bounded call path.
C2_TimeoutLeavesNoChild ==
    [][(SuTimeoutExpired \/ SimTimeoutExpired \/ TcJoin2Done)
         => (resp' = NoResp /\ \A p \in 1..Len(procs') : procs'[p].st = "dead")]_vars

\* C3: after a timeout the timeout-supervised send_request always returns:
\* once it waits for the worker after terminate(), it eventually gets back
\* to main(), even if the child ignores the graceful stop signal.
C3_TimeoutAlwaysReturns ==
    (pc = "tc_join2") ~> (pc = "main_eval")

\* C4: reading a response never blocks indefinitely: every wait for the
\* server's response eventually ends, even if the server never writes a
\* line and never exits.
C4_ReadNeverBlocksForever ==
    (pc \in ReadWaits) ~> (pc \notin ReadWaits)

\* C5: request ids are unique and strictly increasing: over all requests of
\* one MCPClient, whatever the outcome of each call, and over the requests
\* written to one process in every script.
C5_IdsStrictlyIncreasing ==
    \A i, j \in 1..Len(sent) :
        (i < j /\ (script \in {"client", "tclient"} \/ sent[i].p = sent[j].p))
            => sent[i].id < sent[j].id

C5_Witness ==
    /\ script = "tclient"
    /\ Len(sent) = NumSteps
    /\ Len(verdicts) >= 3
    /\ verdicts[3] = "fail"

\* C6: a response whose id differs from the id of the request sent is never
\* reported as successful or valid.
C6_NoSuccessOnIdMismatch ==
    [][(/\ pc \in EvalPcs
        /\ resp.kind = "json"
        /\ sent # <<>>
        /\ resp.id # Last(sent).id
        /\ verdicts' # verdicts)
         => Last(verdicts') \notin SuccessVerdicts]_vars

\* C7: a response carrying both result and error, or neither, is never
\* treated as a success.
C7_ExactlyOneOfResultError ==
    [][(/\ pc \in EvalPcs
        /\ resp.kind = "json"
        /\ resp.hasResult = resp.hasError
        /\ verdicts' # verdicts)
         => Last(verdicts') \notin SuccessVerdicts]_vars

C9_FailureContinues ==
    /\ (/\ script = "suite"
        /\ Len(verdicts) = 3
        /\ verdicts = <<"pass", "fail", "pass">>)
           => (passed = 2 /\ failed = 1 /\ SubSeq(started, 1, 3) = <<1, 2, 3>>)
    /\ script = "suite" =>
          \A k \in 1..Len(verdicts) :
              (verdicts[k] = "fail" /\ k < NumTests)
                  => (Len(started) > k \/ (pc = "su_loop" /\ idx = k + 1))
    /\ (/\ script \in {"client", "tclient"}
        /\ Len(verdicts) >= 3
        /\ verdicts[3] = "fail")
           => (Len(started) > 3 \/ (pc = "main" /\ idx = 4))

C9_Witness ==
    /\ script = "suite"
    /\ verdicts = <<"pass", "fail", "pass">>
    /\ passed = 2 /\ failed = 1
    /\ started = <<1, 2, 3>>

\* C10: run_all_tests executes the steps strictly in declared order, each at
\* most once: the steps started are 1, 2, ... with no repetition, and a
\* step starts only when every earlier step has finished.
C10_InOrderAtMostOnce ==
    script = "suite" =>
        /\ \A i \in 1..Len(started) : started[i] = i
        /\ Len(started) <= NumTests
        /\ Len(verdicts) <= Len(started)
        /\ Len(started) <= Len(verdicts) + 1
        /\ pc = "su_loop" => Len(verdicts) = Len(started)

C10_Witness ==
    /\ script = "suite"
    /\ pc = "done"
    /\ Len(started) = NumTests
    /\ \E k \in 1..Len(verdicts) : verdicts[k] = "fail"

\* C11: a KeyboardInterrupt arriving during a step aborts the remaining queue
\* at once (the run goes to its summary, no later step or iteration starts)
\* and keeps what was gathered: the tally is the one of the steps completed
\* before, and every sample benchmark_tool has recorded is in the results
\* the summary prints.
C11_InterruptAbortsAndPreserves ==
    [][(SuKeyboardInterrupt \/ SuInterruptSwallowed \/ BeKeyboardInterrupt)
         => (/\ pc' \in {"su_summary", "be_summary"}
             /\ passed' = passed
             /\ failed' = failed
             /\ times # <<>> => results'[idx].present)]_vars

\* C12: the summary of run_all_tests always completes: whatever the tally,
\* the empty tally passed = failed = 0 included, the rate is printed and
\* the run ends without an error.
C12_SummaryCompletes ==
    [][(script = "suite" /\ pc = "su_summary" /\ pc' # pc) => pc' = "done"]_vars

\* C13: the exit status is success only when every step passed: none of
\* run_all_tests.py, test_setup_portforward_mcp.py and test_flow_logs_mcp.py
\* ends with status 0 after a run in which a step failed, timed out or got
\* no response.
C13_SuccessOnlyIfAllPassed ==
    (script \in {"suite", "setup", "flow"} /\ pc = "done" /\ ExitStatus = 0)
        => \A k \in 1..Len(verdicts) : verdicts[k] \notin FailureVerdicts

\* C14: run_all_tests is the recovery boundary: a step whose request could
\* not be made or gave no parsable output, or whose test method raised on a
\* malformed result or error member, is counted as exactly one failure,
\* nothing leaves the loop, and the next step is the one that follows.
C14_ErrorsCountedOnce ==
    [][(/\ script = "suite"
        /\ pc = "su_eval"
        /\ verdicts' # verdicts
        /\ (resp = NoResp \/ TestVerdict(idx, resp) = "error"))
         => (/\ failed' = failed + 1
             /\ passed' = passed
             /\ Last(verdicts') = "fail"
             /\ pc' = "su_loop"
             /\ idx' = idx + 1)]_vars

\* test_port_forward_setup raised, was counted as the one failure so far,
\* and the loop is about to start step 5
C14_Witness ==
    /\ script = "suite"
    /\ pc = "su_loop"
    /\ content = "raised"
    /\ idx = 5
    /\ passed = 3 /\ failed = 1

C17_SuccessIffIdempotent ==
    [][(/\ script = "idem"
        /\ pc = "id_eval"
        /\ idx = Len(IdIds)
        /\ verdicts' # verdicts)
         => ((Last(verdicts') = "pass")
                <=> (/\ procs[PfProc].st = "run"
                     /\ resp.kind = "json"
                     /\ ~resp.hasError))]_vars

\* the positions of the cleanup of process p: before terminate(), and in
\* the wait with a timeout that follows it
TerminatePcs(p) ==
    IF script = "idem"
    THEN (IF p = McpProc THEN {"id_cleanup"} ELSE {"id_pf_cleanup"})
    ELSE {"ps_cleanup"}

WaitPcs(p) ==
    IF script = "idem"
    THEN (IF p = McpProc THEN {"id_wait"} ELSE {"id_pf_wait"})
    ELSE {"ps_wait"}

\* C18: the cleanup of a session sends the graceful stop signal first and
\* then waits; the script kills a process only from that wait and only if
\* the process is still alive after having been sent the signal; the error
\* stream is read only once the process has stopped; and a process is not
\* alive once its cleanup is over.
C18_TerminateThenKill ==
    [][(script \in PsScripts \cup {"idem"}) =>
         (/\ \A p \in 1..Len(procs) :
                (pc \in TerminatePcs(p) /\ pc' # pc)
                    => (/\ pc' \in WaitPcs(p)
                        /\ procs[p].st = "run"
                              => procs'[p].st \in {"terming", "stubborn"}
                        /\ procs[p].st # "run" => procs'[p].st = procs[p].st)
          /\ \A p \in 1..Len(procs) :
                (pc' # pc /\ procs[p].st # "dead" /\ procs'[p].st = "dead")
                    => (/\ pc \in WaitPcs(p)
                        /\ procs[p].st \in {"terming", "stubborn"})
          /\ pc' = "ps_stderr" => procs'[1].st = "dead"
          /\ \A p \in 1..Len(procs) :
                (pc \in WaitPcs(p) /\ pc' # pc) => procs'[p].st = "dead")]_vars

\* the server ignores the SIGTERM of the cleanup: the script is in the grace
\* wait, from which only the timeout and kill() lead on
C18_Witness ==
    /\ script = "blocked"
    /\ pc = "ps_wait"
    /\ procs[1].st = "stubborn"
    /\ verdicts = <<"read", "pass">>

\* C19: when benchmark_tool has finished for a tool, the results hold a
\* summary for that tool whose success_rate is successes / attempts x 100,
\* the attempts being all the iterations made; a tool whose attempts all
\* failed has a summary with success_rate 0.
C19_SummaryForEveryTool ==
    [][(script = "bench" /\ pc = "be_loop" /\ pc' = "be_tool")
         => (/\ results'[idx].present
             /\ results'[idx].success_rate[1] * iter
                   = success_count * 100 * results'[idx].success_rate[2])]_vars

\* the sum of the squares of the durations
SumSq(q) == Sum([k \in 1..Len(q) |-> q[k] * q[k]])

\* s holds the statistics of the durations ts: the extremes are durations of
\* ts, the average is their sum over their number and lies between the
\* extremes, and the deviation is 0 for one sample and the sample standard
\* deviation, (n * sum of squares - square of the sum) / (n * (n - 1))
\* squared, for more
StatsOf(s, ts) ==
    LET n == Len(ts) IN
    /\ s.present
    /\ \E k \in 1..n : s.min_time = ts[k]
    /\ \E k \in 1..n : s.max_time = ts[k]
    /\ \A k \in 1..n : s.min_time <= ts[k] /\ ts[k] <= s.max_time
    /\ s.avg_time[2] > 0
    /\ s.avg_time[1] * n = Sum(ts) * s.avg_time[2]
    /\ s.min_time * s.avg_time[2] <= s.avg_time[1]
    /\ s.avg_time[1] <= s.max_time * s.avg_time[2]
    /\ s.std_dev_sq[2] > 0
    /\ (n = 1) => s.std_dev_sq[1] = 0
    /\ (n > 1) => s.std_dev_sq[1] * n * (n - 1)
                     = (n * SumSq(ts) - Sum(ts) * Sum(ts)) * s.std_dev_sq[2]
    /\ (ts = <<1, 2, 3>>)
          => /\ s.avg_time[1] = 2 * s.avg_time[2]
             /\ s.min_time = 1
             /\ s.max_time = 3
             /\ s.std_dev_sq[1] = s.std_dev_sq[2]

\* C20: the statistics of a summary are those of the durations of the
\* successful attempts only: an attempt adds a duration exactly when its
\* response carried a result, a failed attempt adds none, and the summary
\* stored from the durations has min <= avg <= max over them and the sample
\* standard deviation for two samples or more, 0 for one (durations 1, 2, 3
\* give avg 2, min 1, max 3, stddev 1).
C20_StatsOverSuccesses ==
    [][(/\ (script = "bench")
             => /\ success_count' = Len(times')
                /\ (times' # times)
                     => \/ (pc = "be_tool" /\ times' = <<>>)
                        \/ /\ pc = "be_communicate"
                           /\ BeSuccess(Stdout(Cur))
                           /\ Len(times') = Len(times) + 1
                           /\ SubSeq(times', 1, Len(times)) = times
                /\ (pc = "be_communicate" /\ pc' = "be_loop" /\ ~Alive(Cur)
                      /\ BeSuccess(Stdout(Cur)))
                     => Len(times') = Len(times) + 1
        /\ (/\ \/ (script = "stats" /\ pc = "st_apply" /\ pc' = "done")
                \/ (script = "bench" /\ pc = "be_loop" /\ pc' = "be_tool")
             /\ times # <<>>)
             => StatsOf(results'[idx], times))]_vars

\* the summary of the durations 1, 2, 3
C20_Witness ==
    /\ script = "stats"
    /\ pc = "done"
    /\ times = <<1, 2, 3>>
    /\ results[idx].present
    /\ results[idx].min_time = 1
    /\ results[idx].max_time = 3
    /\ results[idx].std_dev_sq[1] = results[idx].std_dev_sq[2]

\* C21: recording is append-only: no call of benchmark_tool, a second call
\* for the same tool included, replaces or removes a summary that the
\* results already hold.
C21_RecordingAppendOnly ==
    [][(script \in {"bench", "stats"})
         => \A t \in 1..NumBenchmarks :
                results[t].present => results'[t] = results[t]]_vars

\* the scripts that spawn one server per call
PerCallScripts == {"suite", "client", "tclient", "sim", "tool"}

\* C22: nothing is retried: in the scripts that spawn a server per call,
\* every process has been sent exactly one request and every request went to
\* a process of its own, a call spawns at most one process, no step is
\* started a second time whatever its outcome was, and each step started
\* has at most one outcome.
C22_NoRetry ==
    script \in PerCallScripts =>
        /\ Len(sent) = Len(procs)
        /\ \A i \in 1..Len(sent) : sent[i].p = i
        /\ Len(procs) <= Len(started)
        /\ \A i, j \in 1..Len(started) : i < j => started[i] < started[j]
        /\ Len(verdicts) <= Len(started)
        /\ Len(started) <= Len(verdicts) + 1

\* the first call of run_all_tests timed out and left its server running;
\* the second test has spawned a server of its own for its request
C22_Witness ==
    /\ script = "suite"
    /\ pc = "su_communicate"
    /\ verdicts = <<"fail">>
    /\ started = <<1, 2>>
    /\ Len(sent) = 2
    /\ procs[1].st = "run"

\* the scripts that keep one server for several requests
SessionScripts == PsScripts \cup {"idem"}

\* the process of the session, and the ids of its requests in order
SessionProc == IF script = "idem" THEN McpProc ELSE 1

SessionIds == IF script = "idem" THEN IdIds ELSE PsIds(script)

\* C23: strict pairing in a persistent session: a request is written only
\* when every earlier request has had its line read and judged and nothing
\* is outstanding at the server, so at most one request is outstanding; and
\* the k-th line read is judged as the response of the k-th request written.
C23_StrictPairing ==
    [][(script \in SessionScripts) =>
         (/\ (sent' # sent)
                => (/\ Len(sent') = Len(sent) + 1
                    /\ Len(verdicts) = Len(sent)
                    /\ procs[SessionProc].req = <<>>
                    /\ procs[SessionProc].out = <<>>
                    /\ Last(sent').id = SessionIds[Len(sent')])
          /\ (pc \in {"ps_eval", "id_eval"} /\ verdicts' # verdicts)
                => (/\ Len(verdicts') = Len(sent)
                    /\ idx = Len(sent)
                    /\ Last(sent).id = SessionIds[idx])
          /\ Len(sent') <= Len(verdicts') + 1)]_vars

\* test_mcp_tools holds the third line it has read, after three requests
\* and two judged lines
C23_Witness ==
    /\ script = "flow"
    /\ pc = "ps_eval"
    /\ idx = 3
    /\ Len(sent) = 3
    /\ verdicts = <<"read", "fail">>
    /\ resp.kind = "json"

\* the process whose output the current call or session reads
RespProc == IF script \in SessionScripts THEN SessionProc ELSE Cur

\* the script is done with process p: it has called terminate() on it, or
\* communicate() has returned for it and the handle is gone
Finished(p) ==
    \/ ~procs[p].held
    \/ procs[p].st \in {"terming", "stubborn"}
    \/ script = "tclient" /\ pc = "tc_join2"
    \/ script \in PsScripts /\ pc \in {"ps_wait", "ps_stderr"}
    \/ script = "idem" /\ p = McpProc
          /\ pc \in {"id_wait", "id_pf_cleanup", "id_pf_wait"}
    \/ script = "idem" /\ p = PfProc /\ pc = "id_pf_wait"
    \/ pc \in {"done", "crashed"}

\* C24: a process handle is not used again once the script is done with it:
\* a request of a script that spawns per call goes to a process spawned for
\* it; no request is written to, and no response is taken from, a process
\* on which the script has called terminate() or kill() or for which
\* communicate() has returned; and a handle that is gone stays gone.
C24_HandleNeverReused ==
    [][/\ (sent' # sent /\ script \in PerCallScripts \cup {"bench"})
            => (/\ Len(procs') = Len(procs) + 1
                /\ Last(sent').p = Len(procs')
                /\ \A q \in 1..Len(procs) : procs'[q] = procs[q])
       /\ (sent' # sent /\ Last(sent').p <= Len(procs))
            => (~Finished(Last(sent').p) /\ procs[Last(sent').p].st = "run")
       /\ (resp' # resp /\ resp' # NoResp) => ~Finished(RespProc)
       /\ \A q \in 1..Len(procs) :
            ~procs[q].held => (/\ ~procs'[q].held
                               /\ procs'[q].req = <<>>
                               /\ procs'[q].out = <<>>)]_vars

\* the timeout-supervised client has terminated the server of its third
\* call and is making its fourth call with a new process
C24_Witness ==
    /\ script = "tclient"
    /\ pc = "tc_join"
    /\ Len(procs) = 4
    /\ ~procs[3].held
    /\ procs[4].held
    /\ sent[4].p = 4
    /\ verdicts = <<"pass", "pass", "fail">>

\* C25: in the timeout-supervised send_request the captured output is
\* written by the worker only, the calling thread takes its return value
\* from it only when the worker has finished, and while the worker is
\* alive the calling thread neither reads the captured output nor touches
\* the pipes of the child.
C25_WorkerOwnsCapture ==
    [][(script = "tclient") =>
         (/\ (thread = "running" /\ captured' # captured)
                => (thread' = "finished" /\ pc' = pc /\ captured' = Stdout(Cur))
          /\ (resp' # resp /\ resp' # NoResp)
                => (thread = "finished" /\ resp' = ParseOrNone(captured))
          /\ (thread = "running" /\ pc' # pc)
                => (/\ resp' = resp
                    /\ captured' = captured
                    /\ procs'[Cur].out = procs[Cur].out
                    /\ procs'[Cur].req = procs[Cur].req
                    /\ procs'[Cur].held))]_vars

\* the join with a timeout has returned and the worker has finished with a
\* JSON line captured: the calling thread is about to look at it
C25_Witness ==
    /\ script = "tclient"
    /\ pc = "tc_check"
    /\ thread = "finished"
    /\ captured.kind = "json"
    /\ resp = NoResp

\* why the call that returns in this step ends: the spawn failed, the bound
\* elapsed, or communicate() returned with no output, with text that is not
\* JSON, with an "error" member, or with something else
Cause ==
    IF pc = "su_loop" THEN "process"
    ELSE IF pc = "tc_join2" \/ (pc = "su_communicate" /\ Alive(Cur))
    THEN "timeout"
    ELSE LET out == IF script = "tclient" THEN captured ELSE Stdout(Cur) IN
         IF out.kind = "none" THEN "empty"
         ELSE IF out.kind = "garbage" THEN "protocol"
         ELSE IF out.hasError THEN "tool"
         ELSE "other"

\* C26: the value a call returns tells the kinds of failure apart: None, the
\* value returned when no response came within the bound, is returned for
\* no other kind of failure, and a response with an "error" member is
\* returned as it is.
C26_OutcomesDistinguishKinds ==
    [][(/\ script \in {"suite", "tclient"}
        /\ pc \in {"su_loop", "su_communicate", "tc_check", "tc_join2"}
        /\ pc' \in {"su_eval", "main_eval"})
         => (/\ (Cause \in {"protocol", "process", "empty"}) => resp' # NoResp
             /\ (Cause = "timeout") => resp' = NoResp
             /\ (Cause = "tool") => (resp' # NoResp /\ resp'.hasError))]_vars

\* C27: the handshake step passes only when the result holds a server name
\* and version, and the tools/list step passes only when the result holds
\* at least one tool and the names of its tools are pairwise distinct.
C27_PassNeedsWellFormedResult ==
    [][(/\ script = "suite"
        /\ pc = "su_eval"
        /\ verdicts' # verdicts
        /\ Last(verdicts') = "pass")
         => (/\ idx = 1 => content' = "named"
             /\ idx = 2 => content' = "distinct")]_vars

\* positions at which a session waits for the line of its last request
SessionWaits == {"ps_select", "ps_read", "id_read"}

\* C28: a request written to a persistent session is one line that has
\* reached the server's standard input when the harness starts to wait:
\* the write adds exactly that one request to what the server can read and
\* leads to the wait, and whenever the harness waits for a line the server
\* has a request to answer or the line is already there.
C28_FlushedBeforeWaiting ==
    [][(script \in SessionScripts) =>
         (/\ (sent' # sent)
                => (/\ Len(sent') = Len(sent) + 1
                    /\ procs'[SessionProc].req
                          = Append(procs[SessionProc].req, Last(sent').id)
                    /\ procs'[SessionProc].out = procs[SessionProc].out
                    /\ pc' \in SessionWaits)
          /\ (pc' \in SessionWaits)
                => (\/ procs'[SessionProc].req # <<>>
                    \/ procs'[SessionProc].out # <<>>))]_vars

\* the second request of test_with_existing_portforward is with the server
\* and the script waits in readline()
C28_Witness ==
    /\ script = "idem"
    /\ pc = "id_read"
    /\ idx = 2
    /\ procs[McpProc].req = <<2>>
    /\ procs[McpProc].out = <<>>
    /\ procs[McpProc].st = "run"

\* C29: a persistent session does not deadlock on the error stream: the
\* script is never waiting in readline() for the line of a running server
\* that has not written it and is blocked in a write to its full stderr
\* pipe.
C29_NoStderrDeadlock ==
    ~(/\ script \in SessionScripts
      /\ pc \in {"ps_read", "id_read"}
      /\ procs[SessionProc].st = "run"
      /\ procs[SessionProc].out = <<>>
      /\ ErrBlocked(SessionProc))

\* C30: whenever the timeout-supervised send_request returns, normally or
\* after a timeout, the worker has finished and the child spawned by the
\* call has exited, so no child of the client is alive between calls and
\* at most one is alive at any time.
C30_ReturnMeansChildGone ==
    [][(script = "tclient") =>
         (/\ (pc \in {"tc_check", "tc_join2"} /\ pc' = "main_eval")
                => (/\ thread = "finished"
                    /\ procs[Cur].st = "dead"
                    /\ \A p \in 1..Len(procs') : procs'[p].st = "dead")
          /\ (pc' \in {"main", "main_eval", "done"})
                => \A p \in 1..Len(procs') : procs'[p].st = "dead"
          /\ \A p, q \in 1..Len(procs') :
                (procs'[p].st # "dead" /\ procs'[q].st # "dead") => p = q)]_vars

\* the second call timed out, the child has exited after terminate() and
\* the worker has finished: send_request is about to return None
C30_Witness ==
    /\ script = "tclient"
    /\ pc = "tc_join2"
    /\ thread = "finished"
    /\ Len(procs) = 2
    /\ procs[1].st = "dead"
    /\ procs[2].st = "dead"

\* C31: once thread.join(timeout) has returned on its timeout with the
\* worker still running, the call returns None whatever happens next: what
\* the worker captures afterwards is never returned.
C31_ExpiredJoinMeansTimeout ==
    [][(/\ script = "tclient"
        /\ expired
        /\ pc \in {"tc_check", "tc_join2"}
        /\ pc' = "main_eval")
         => resp' = NoResp]_vars

\* the requests benchmark_tool has sent for the tool it is running: one per
\* attempt begun
BeAttempts == Len(sent) - (idx - 1) * Iterations

C33_NestedLifecycle ==
    [][(script = "idem") =>
         (/\ (sent' # sent)
                => (/\ Len(procs) = McpProc
                    /\ procs[PfProc].st \in {"run", "dead"}
                    /\ procs[PfProc].held)
          /\ (pc = "id_pf_cleanup" /\ pc' # pc)
                => (Len(procs) >= McpProc => procs[McpProc].st = "dead")
          /\ (pc' \in {"done", "crashed"} /\ pc' # pc /\ procs # <<>>)
                => (pc = "id_pf_wait" /\ procs'[PfProc].st = "dead"))]_vars

\* C34: in a persistent session the handshake comes first: the first request
\* written to the process is "initialize"; every later request is a
\* tools/call and is written only after the line read for the handshake
\* has been taken, by a readline that returned a line of the process and
\* not the end of file; and the first line is read with the handshake as
\* the only request written.
C34_HandshakeFirst ==
    [][(script \in SessionScripts) =>
         (/\ (sent' # sent /\ sent = <<>>)
                => (MethodOf(Last(sent').id) = "initialize" /\ verdicts = <<>>)
          /\ (sent' # sent /\ sent # <<>>)
                => (/\ MethodOf(Last(sent').id) = "tools/call"
                    /\ MethodOf(sent[1].id) = "initialize"
                    /\ Len(verdicts) >= 1
                    /\ verdicts[1] = "read"
                    /\ Alive(SessionProc)
                    /\ procs[SessionProc].req = <<>>
                    /\ procs[SessionProc].out = <<>>)
          /\ (pc \in {"ps_read", "id_read"} /\ pc' # pc /\ verdicts = <<>>)
                => (Len(sent) = 1 /\ MethodOf(sent[1].id) = "initialize"))]_vars

\* test_setup_port_forward has read the line of the handshake and has
\* written its tools/call, which the server has not answered yet
C34_Witness ==
    /\ script = "setup"
    /\ pc = "ps_select"
    /\ verdicts = <<"read">>
    /\ Len(sent) = 2
    /\ MethodOf(sent[1].id) = "initialize"
    /\ MethodOf(sent[2].id) = "tools/call"
    /\ procs[1].req = <<2>>

\* C35: test_server_path returns True when the command exists and the
\* server answers the initialize request with a response that has a result,
\* and False when the command is missing or the server times out, returns
\* an error, or produces no or invalid output; no process it has started
\* is left alive.
C35_ServerPathVerdict ==
    (script = "validate" /\ pc = "done")
        => (/\ Len(verdicts) = 1
            /\ (command.exists /\ command.answer = "result")
                  => verdicts[1] = "pass"
            /\ (~command.exists \/ command.answer # "result")
                  => verdicts[1] = "fail"
            /\ \A p \in 1..Len(procs) : procs[p].st = "dead")

====
